---- MODULE Spec2Model ----
(***************************************************************************)
(* Model of the two Xcode repair scripts, auto_fix_xcode.py and            *)
(* fix_infoplist_duplicate.py.                                             *)
(*                                                                         *)
(* Text is modelled as a sequence of tokens.  Every token stands for one   *)
(* fixed piece of text, its own spelling except for the tokens named       *)
(* here, and a document is the concatenation of its tokens:                *)
(*     "SP" a blank, "NL" a line feed, "CR" a carriage return,             *)
(*     "QUOTE" a double quote,                                             *)
(*     "HEX1", "HEX2" two different 24-digit upper-case hex identifiers.   *)
(* The regular expressions of the scripts are translated to matchers over  *)
(* token sequences.  The tokens are chosen so that no keyword of a pattern *)
(* can begin or end inside a token, hence a match of the source's pattern  *)
(* on the text starts and ends at token boundaries.                        *)
(***************************************************************************)
EXTENDS Integers, Sequences, FiniteSets, TLC

\* ------------------------------------------------------------------ tokens

\* \s of the patterns
IsSpace(t) == t \in {"SP", "NL", "CR"}

\* tokens made only of characters in [A-Za-z_]
IsLetters(t) ==
    t \in {"GENERATE_", "INFOPLIST_FILE", "INFOPLIST_KEY_", "CODE_SIGN_ENTITLEMENTS",
           "PRODUCT_BUNDLE_IDENTIFIER", "DEVELOPMENT_TEAM", "YES", "NO", "Foo",
           "in", "Resources",
           "UIApplicationSceneManifest_Generation",
           "UIApplicationSupportsIndirectInputEvents",
           "UILaunchScreen_Generation", "UIStatusBarStyle"}

\* [A-F0-9]{24}
IsHex24(t) == t \in {"HEX1", "HEX2"}

\* s[i] when i is a position of s, else a token that is in no class
At(s, i) == IF i >= 1 /\ i <= Len(s) THEN s[i] ELSE "<end>"

\* The first position >= i of s that does not hold a token satisfying the
\* class (Len(s)+1 when there is none): the end of a greedy run cls*.
RECURSIVE SkipSpace(_, _)
SkipSpace(s, i) == IF i <= Len(s) /\ IsSpace(s[i]) THEN SkipSpace(s, i + 1) ELSE i

RECURSIVE SkipLetters(_, _)
SkipLetters(s, i) == IF i <= Len(s) /\ IsLetters(s[i]) THEN SkipLetters(s, i + 1) ELSE i

\* first position >= i holding token t, or Len(s)+1
RECURSIVE Find(_, _, _)
Find(s, i, t) == IF i <= Len(s) /\ s[i] # t THEN Find(s, i + 1, t) ELSE i

\* \s*=  starting at i: the position after "=", or 0 when it does not match
AfterEq(s, i) ==
    LET j == SkipSpace(s, i) IN IF At(s, j) = "=" THEN j + 1 ELSE 0

\* \s*=\s*"[^"]*";  starting at i: <<position after the match, position of the
\* opening quote, position of the closing quote>>, or <<0, 0, 0>>
QuotedValue(s, i) ==
    LET e == AfterEq(s, i)
        q == SkipSpace(s, e)
        c == Find(s, q + 1, "QUOTE")
    IN IF e > 0 /\ At(s, q) = "QUOTE" /\ At(s, c) = "QUOTE" /\ At(s, c + 1) = ";"
       THEN <<c + 2, q, c>> ELSE <<0, 0, 0>>

\* \s*=\s*[^;]+;  starting at i: the position after the match, or 0.  The
\* run [^;]+ needs one character; \s* gives a blank back to it when the
\* value is blank only.
UnquotedValue(s, i) ==
    LET e == AfterEq(s, i)
        c == Find(s, e, ";")
    IN IF e > 0 /\ c > e /\ c <= Len(s) THEN c + 1 ELSE 0

\* ----------------------------------------------- auto_fix_xcode.fix_pbxproj

\* The six patterns of fix_pbxproj are numbered 1 .. 6 in the order the
\* function applies them.

\* The end (position after the last token) of the match of rule r's pattern
\* that starts at position i of s, or 0 when the pattern does not match there.
RuleMatchEnd(r, s, i) ==
    CASE r = 1 ->   \* GENERATE_INFOPLIST_FILE\s*=\s*YES;
            LET e == AfterEq(s, i + 2)
                y == SkipSpace(s, e)
            IN IF At(s, i) = "GENERATE_" /\ At(s, i + 1) = "INFOPLIST_FILE" /\ e > 0
                  /\ At(s, y) = "YES" /\ At(s, y + 1) = ";"
               THEN y + 2 ELSE 0
      [] r = 2 ->   \* INFOPLIST_FILE\s*=\s*"[^"]*";
            IF At(s, i) = "INFOPLIST_FILE" THEN QuotedValue(s, i + 1)[1] ELSE 0
      [] r = 3 ->   \* INFOPLIST_KEY_[A-Za-z_]+\s*=\s*[^;]+;
            LET n == SkipLetters(s, i + 1)
            IN IF At(s, i) = "INFOPLIST_KEY_" /\ n > i + 1
               THEN UnquotedValue(s, n) ELSE 0
      [] r = 4 ->   \* CODE_SIGN_ENTITLEMENTS\s*=\s*"[^"]*BeaconAttendance/BeaconAttendance[^"]*";
            LET v == QuotedValue(s, i + 1)
            IN IF At(s, i) = "CODE_SIGN_ENTITLEMENTS" /\ v[1] > 0
                  /\ \E k \in (v[2] + 1) .. (v[3] - 1) :
                        s[k] = "BeaconAttendance/BeaconAttendance"
               THEN v[1] ELSE 0
      [] r = 5 ->   \* PRODUCT_BUNDLE_IDENTIFIER\s*=\s*"[^"]*";
            IF At(s, i) = "PRODUCT_BUNDLE_IDENTIFIER" THEN QuotedValue(s, i + 1)[1] ELSE 0
      [] r = 6 ->   \* DEVELOPMENT_TEAM\s*=\s*[^;]+;
            IF At(s, i) = "DEVELOPMENT_TEAM" THEN UnquotedValue(s, i + 1) ELSE 0

\* The replacement text of each rule.
RuleReplacement(r) ==
    CASE r = 1 -> <<"GENERATE_", "INFOPLIST_FILE", "SP", "=", "SP", "NO", ";">>
      [] r = 2 -> <<"INFOPLIST_FILE", "SP", "=", "SP", "QUOTE",
                    "BeaconAttendanceApp/Resources/Info.plist", "QUOTE", ";">>
      [] r = 3 -> <<>>
      [] r = 4 -> <<"CODE_SIGN_ENTITLEMENTS", "SP", "=", "SP", "QUOTE",
                    "BeaconAttendance.entitlements", "QUOTE", ";">>
      [] r = 5 -> <<"PRODUCT_BUNDLE_IDENTIFIER", "SP", "=", "SP", "QUOTE",
                    "com.oxii.BeaconAttendance", "QUOTE", ";">>
      [] r = 6 -> <<"DEVELOPMENT_TEAM", "SP", "=", "SP", "QUOTE", "QUOTE", ";">>

\* re.sub(pattern r, replacement r, s) from position i on: the leftmost
\* match is replaced and the scan goes on after it.
RECURSIVE ReSubFrom(_, _, _)
ReSubFrom(r, s, i) ==
    IF i > Len(s) THEN <<>>
    ELSE LET e == RuleMatchEnd(r, s, i)
         IN IF e > 0 THEN RuleReplacement(r) \o ReSubFrom(r, s, e)
            ELSE <<s[i]>> \o ReSubFrom(r, s, i + 1)

ReSub(r, s) == ReSubFrom(r, s, 1)

\* the number of (non-overlapping) matches re.sub replaces
RECURSIVE CountFrom(_, _, _)
CountFrom(r, s, i) ==
    IF i > Len(s) THEN 0
    ELSE LET e == RuleMatchEnd(r, s, i)
         IN IF e > 0 THEN 1 + CountFrom(r, s, e) ELSE CountFrom(r, s, i + 1)

\* The text after the rules 1 .. r have been applied one after the other,
\* each to the result of the one before.
RECURSIVE ApplyRules(_, _)
ApplyRules(r, s) == IF r = 0 THEN s ELSE ReSub(r, ApplyRules(r - 1, s))

\* the number of matches the rules r .. 6 find when they are applied one
\* after the other from the text s on, each counted on the text it is applied to
RECURSIVE RuleMatchesFrom(_, _)
RuleMatchesFrom(r, s) ==
    IF r > 6 THEN 0
    ELSE CountFrom(r, s, 1) + RuleMatchesFrom(r + 1, ReSub(r, s))

RuleMatches(s) == RuleMatchesFrom(1, s)

\* open(path, 'r').read(): universal newlines turn "\r\n" and a lone "\r"
\* into "\n"
RECURSIVE ReadText(_)
ReadText(raw) ==
    IF raw = <<>> THEN <<>>
    ELSE IF raw[1] = "CR"
         THEN <<"NL">> \o ReadText(IF At(raw, 2) = "NL" THEN SubSeq(raw, 3, Len(raw))
                                                       ELSE Tail(raw))
         ELSE <<raw[1]>> \o ReadText(Tail(raw))

\* ------------------- auto_fix_xcode.remove_info_plist_from_copy_resources

\* [A-F0-9]{24}\s*/\*\s*Info\.plist\s*\*/\s*in\s*Resources\s*\*/,?\s*
\* starting at i: the position after the match, or 0.
EntryMatchEnd(s, i) ==
    LET a == SkipSpace(s, i + 1)
        b == SkipSpace(s, a + 1)
        c == SkipSpace(s, b + 1)
        d == SkipSpace(s, c + 1)
        e == SkipSpace(s, d + 1)
        f == SkipSpace(s, e + 1)
    IN IF /\ IsHex24(At(s, i))
          /\ At(s, a) = "/*"
          /\ At(s, b) = "Info.plist"
          /\ At(s, c) = "*/"
          /\ At(s, d) = "in"
          /\ At(s, e) = "Resources"
          /\ At(s, f) = "*/"
       THEN SkipSpace(s, IF At(s, f + 1) = "," THEN f + 2 ELSE f + 1)
       ELSE 0

\* re.findall(pattern, s): the matched texts, left to right, not overlapping
RECURSIVE FindAllFrom(_, _)
FindAllFrom(s, i) ==
    IF i > Len(s) THEN <<>>
    ELSE LET e == EntryMatchEnd(s, i)
         IN IF e > 0 THEN <<SubSeq(s, i, e - 1)>> \o FindAllFrom(s, e)
            ELSE FindAllFrom(s, i + 1)

FindAll(s) == FindAllFrom(s, 1)

\* whether m occurs in s at position i
OccursAt(s, m, i) ==
    /\ i + Len(m) - 1 <= Len(s)
    /\ \A k \in 1 .. Len(m) : s[i + k - 1] = m[k]

\* s.replace(m, ''): every occurrence of the non-empty m, left to right and
\* not overlapping, is deleted
RECURSIVE StrRemoveFrom(_, _, _)
StrRemoveFrom(s, m, i) ==
    IF i > Len(s) THEN <<>>
    ELSE IF OccursAt(s, m, i) THEN StrRemoveFrom(s, m, i + Len(m))
         ELSE <<s[i]>> \o StrRemoveFrom(s, m, i + 1)

StrRemove(s, m) == StrRemoveFrom(s, m, 1)

\* for match in matches: content = content.replace(match, '')
RECURSIVE RemoveEach(_, _)
RemoveEach(s, matches) ==
    IF matches = <<>> THEN s
    ELSE RemoveEach(StrRemove(s, Head(matches)), Tail(matches))

\* ------------------------------- fix_infoplist_duplicate.fix_project_file

\* the keys of keys_to_remove, in order
RemovedKeys ==
    <<"UIApplicationSceneManifest_Generation",
      "UIApplicationSupportsIndirectInputEvents",
      "UILaunchScreen_Generation",
      "UIStatusBarStyle">>

\* re.match(keys_to_remove[k], line):
\*   ^\s*"INFOPLIST_KEY_<key>\[sdk=[^\]]*\]"\s*=\s*YES;\s*$        (k = 1, 2, 3)
\*   ^\s*"INFOPLIST_KEY_UIStatusBarStyle\[sdk=[^\]]*\]"\s*=\s*[^;]+;\s*$  (k = 4)
KeyPatternMatches(k, line) ==
    LET p == SkipSpace(line, 1)
        e == AfterEq(line, p + 5)
        y == SkipSpace(line, e)
        u == UnquotedValue(line, p + 5)
    IN /\ At(line, p) = "QUOTE"
       /\ At(line, p + 1) = "INFOPLIST_KEY_"
       /\ At(line, p + 2) = RemovedKeys[k]
       /\ At(line, p + 3) = "[sdk=iphoneos*]"
       /\ At(line, p + 4) = "QUOTE"
       /\ IF k = 4
          THEN u > 0 /\ SkipSpace(line, u) > Len(line)
          ELSE /\ e > 0
               /\ At(line, y) = "YES"
               /\ At(line, y + 1) = ";"
               /\ SkipSpace(line, y + 2) > Len(line)

\* should_remove of the loop over the lines
ShouldRemove(line) == \E k \in 1 .. Len(RemovedKeys) : KeyPatternMatches(k, line)

\* content.split('\n')
RECURSIVE SplitLines(_)
SplitLines(s) ==
    LET n == Find(s, 1, "NL")
    IN IF n > Len(s) THEN <<s>>
       ELSE <<SubSeq(s, 1, n - 1)>> \o SplitLines(SubSeq(s, n + 1, Len(s)))

\* '\n'.join(lines)
RECURSIVE JoinLines(_)
JoinLines(lines) ==
    IF lines = <<>> THEN <<>>
    ELSE IF Len(lines) = 1 THEN lines[1]
         ELSE lines[1] \o <<"NL">> \o JoinLines(Tail(lines))

\* new_lines: the lines that match none of the patterns
RECURSIVE KeptLines(_)
KeptLines(lines) ==
    IF lines = <<>> THEN <<>>
    ELSE (IF ShouldRemove(Head(lines)) THEN <<>> ELSE <<Head(lines)>>)
         \o KeptLines(Tail(lines))

\* ------------------------------------------- auto_fix_xcode.fix_info_plist

\* Property-list values as plistlib decodes them, tagged with their type.
StrVal(x)   == [type |-> "str",  num |-> 0, str |-> x,  items |-> <<>>]
BoolVal(b)  == [type |-> "bool", num |-> IF b THEN 1 ELSE 0, str |-> "", items |-> <<>>]
IntVal(n)   == [type |-> "int",  num |-> n, str |-> "", items |-> <<>>]
ListVal(xs) == [type |-> "list", num |-> 0, str |-> "", items |-> xs]
\* the value of a key the dictionary does not hold
Missing  == [type |-> "missing", num |-> 0, str |-> "", items |-> <<>>]

\* required_keys of fix_info_plist
required_keys ==
    [NSLocationAlwaysAndWhenInUseUsageDescription |->
        StrVal("Beacon Attendance needs location access to detect when you enter or leave work sites."),
     NSLocationWhenInUseUsageDescription |->
        StrVal("Beacon Attendance needs location access to detect nearby beacons."),
     NSLocationAlwaysUsageDescription |->
        StrVal("Beacon Attendance needs background location access for automatic attendance tracking."),
     NSBluetoothAlwaysUsageDescription |->
        StrVal("Beacon Attendance uses Bluetooth to detect proximity beacons."),
     UIBackgroundModes |-> ListVal(<<"bluetooth-central", "location", "fetch", "processing">>),
     CFBundleIdentifier |-> StrVal("com.oxii.BeaconAttendance"),
     CFBundleDisplayName |-> StrVal("Beacon Attendance"),
     LSRequiresIPhoneOS |-> BoolVal(TRUE)]

RequiredNames == DOMAIN required_keys

\* the keys a modelled dictionary may hold: the required ones and one more
KeyNames == RequiredNames \cup {"CFBundleVersion"}

\* Python's a != b on decoded values: bool is a subclass of int, so a bool
\* and an int compare by number; values of other different types differ.
PyNotEqual(a, b) ==
    IF a.type \in {"bool", "int"} /\ b.type \in {"bool", "int"}
    THEN a.num # b.num
    ELSE a # b

\* the condition of the loop: key not in plist or plist[key] != value
NeedsUpdate(dict, k) ==
    dict[k].type = "missing" \/ PyNotEqual(dict[k], required_keys[k])

\* the dictionary after the loop over required_keys
Reconciled(dict) ==
    [k \in KeyNames |->
        IF k \in RequiredNames /\ NeedsUpdate(dict, k) THEN required_keys[k] ELSE dict[k]]

\* modified after the loop
Modified(dict) == \E k \in RequiredNames : NeedsUpdate(dict, k)

\* ---------------------------------------------------------------- files

NoText  == [exists |-> FALSE, text |-> <<>>]
TextFile(t) == [exists |-> TRUE, text |-> t]

EmptyDict == [k \in KeyNames |-> Missing]
NoPlist == [exists |-> FALSE, valid |-> FALSE, fmt |-> "none", dict |-> EmptyDict]
\* a file plistlib.load rejects
BadPlist == [exists |-> TRUE, valid |-> FALSE, fmt |-> "none", dict |-> EmptyDict]
PlistFile(f, d) == [exists |-> TRUE, valid |-> TRUE, fmt |-> f, dict |-> d]

\* backup_file without its test of os.path.exists(backup_path)
BackupFileNoGuard(orig, backup) == orig

\* backup_file of auto_fix_xcode: the file at filepath + ".backup" after the
\* call: cp runs only when no backup exists yet.
BackupFile(orig, backup) == IF backup.exists THEN backup ELSE orig

\* shutil.copy2(project_path, backup_path) of fix_project_file: the file at
\* backup_path after the call.
Copy2(orig, backup) == orig

\* ---------------------------------------------------------------- bounds

\* a modelled descriptor is made of at most MaxChunks pieces of Chunks
MaxChunks == 2
\* the scripts are run at most MaxRuns times, one run after the other
MaxRuns == 2

\* ---------------------------------------------------------- initial files

\* Pieces of project.pbxproj: settings the rules rewrite, settings they leave
\* alone, resource entries, lines fix_project_file removes, line ends.
Chunks ==
    { <<"GENERATE_", "INFOPLIST_FILE", "SP", "=", "SP", "YES", ";", "NL">>,
      <<"INFOPLIST_FILE", "=", "QUOTE", "Foo", "QUOTE", ";", "NL">>,
      <<"INFOPLIST_FILE", "SP", "=", "SP", "QUOTE",
        "BeaconAttendanceApp/Resources/Info.plist", "QUOTE", ";", "NL">>,
      <<"INFOPLIST_FILE", "SP", "=", "SP",
        "BeaconAttendanceApp/Resources/Info.plist", ";", "NL">>,
      <<"INFOPLIST_KEY_", "Foo", "SP", "=", "SP", "YES", ";", "NL">>,
      <<"CODE_SIGN_ENTITLEMENTS", "SP", "=", "SP", "QUOTE",
        "BeaconAttendance/BeaconAttendance", "QUOTE", ";", "NL">>,
      <<"PRODUCT_BUNDLE_IDENTIFIER", "SP", "=", "SP", "QUOTE", "Foo", "QUOTE", ";", "NL">>,
      <<"DEVELOPMENT_TEAM", "SP", "=", "SP", "Foo", ";", "NL">>,
      <<"DEVELOPMENT_TEAM", "SP", "=", "SP", "QUOTE", "QUOTE", ";", "NL">>,
      <<"HEX1", "SP", "/*", "SP", "Info.plist", "SP", "*/", "SP", "in", "SP",
        "Resources", "SP", "*/", ",", "NL">>,
      <<"HEX2", "SP", "/*", "SP", "Info.plist", "SP", "*/", "SP", "in", "SP",
        "Resources", "SP", "*/", ",">>,
      <<"QUOTE", "INFOPLIST_KEY_", "UIStatusBarStyle", "[sdk=iphoneos*]", "QUOTE",
        "SP", "=", "SP", "Foo", ";", "NL">>,
      <<"QUOTE", "INFOPLIST_KEY_", "UILaunchScreen_Generation", "[sdk=iphoneos*]", "QUOTE",
        "SP", "=", "SP", "YES", ";", "CR", "NL">>,
      <<"Foo", "SP", "=", "SP", "YES", ";", "CR", "NL">> }

\* the texts made of at most n chunks
RECURSIVE ChunkTexts(_)
ChunkTexts(n) ==
    IF n = 0 THEN {<<>>}
    ELSE LET shorter == ChunkTexts(n - 1)
         IN shorter \cup {t \o c : t \in shorter, c \in Chunks}

\* Texts in which a piece that the scripts delete stands inside another
\* setting or entry: an opening, the deleted piece, a closing.
Openings ==
    { <<"INFOPLIST_FILE">>, <<"GENERATE_", "INFOPLIST_FILE">>,
      <<"INFOPLIST_KEY_", "Foo">>, <<"HEX2", "SP">> }
Deleted ==
    { <<"INFOPLIST_KEY_", "Foo", "SP", "=", "SP", "YES", ";">>,
      <<"HEX1", "SP", "/*", "SP", "Info.plist", "SP", "*/", "SP", "in", "SP",
        "Resources", "SP", "*/", ",", "NL">> }
Closings ==
    { <<"SP", "=", "SP", "QUOTE", "Foo", "QUOTE", ";", "NL">>,
      <<"SP", "=", "SP", "YES", ";", "NL">>,
      <<"/*", "SP", "Info.plist", "SP", "*/", "SP", "in", "SP", "Resources", "SP", "*/", ",", "NL">> }
EmbeddedTexts == {o \o d \o c : o \in Openings, d \in Deleted, c \in Closings}

Descriptors == ChunkTexts(MaxChunks) \cup EmbeddedTexts

\* a dictionary that needs no update, with one key that is not required
GoodDict ==
    [k \in KeyNames |-> IF k \in RequiredNames THEN required_keys[k] ELSE StrVal("1")]

Dicts ==
    { GoodDict,
      [GoodDict EXCEPT !["CFBundleDisplayName"] = Missing],
      [GoodDict EXCEPT !["CFBundleIdentifier"] = StrVal("com.example.app"),
                       !["CFBundleVersion"] = Missing],
      [GoodDict EXCEPT !["LSRequiresIPhoneOS"] = StrVal("true")],
      [GoodDict EXCEPT !["LSRequiresIPhoneOS"] = IntVal(1)],
      [GoodDict EXCEPT !["LSRequiresIPhoneOS"] = IntVal(0)],
      [GoodDict EXCEPT !["LSRequiresIPhoneOS"] = BoolVal(FALSE)],
      [GoodDict EXCEPT !["UIBackgroundModes"] =
            ListVal(<<"location", "bluetooth-central", "fetch", "processing">>)],
      [GoodDict EXCEPT !["UIBackgroundModes"] = ListVal(<<"location">>)] }

PlistFiles ==
    {NoPlist, BadPlist} \cup {PlistFile("xml", d) : d \in Dicts}
    \cup {PlistFile("binary", GoodDict)}

\* ~/Library/Developer/Xcode/DerivedData: absent, or holding directories,
\* each named by a prefix and a rest
NoDerivedData == [exists |-> FALSE, dirs |-> {}]
DerivedDatas ==
    { NoDerivedData,
      [exists |-> TRUE, dirs |-> {}],
      [exists |-> TRUE,
       dirs |-> {<<"BeaconAttendance-", "bmhxyz">>, <<"BeaconAttendanceKit-", "qrs">>,
                 <<"Pods-", "abc">>}] }

\* dir_name.startswith("BeaconAttendance-")
IsBeaconDir(name) == name[1] = "BeaconAttendance-"

\* ----------------------------------------------------------------- state

VARIABLES
    projectExists,  \* whether PROJECT_PATH, the .xcodeproj directory, exists
    pbx,            \* project.pbxproj
    pbxBackup,      \* project.pbxproj.backup   (backup_file)
    pbxBackup2,     \* project.pbxproj.backup2  (fix_project_file)
    plist,          \* Info.plist
    plistBackup,    \* Info.plist.backup        (backup_file)
    derived,        \* the DerivedData directory
    pc,             \* the function the running script calls next, or "idle"
    status,         \* how the last run ended: "none", "running", "ok", "exit1", "exception"
    script,         \* the script of the last run: "none", "auto_fix", "duplicate_fix"
    changes_made,   \* changes_made of auto_fix_xcode.main
    ret,            \* what the last function called returned
    runs,           \* the number of runs started
    stages,         \* history: the functions the current run has called, in order
    io,             \* history: the file operations of the current run, in order
    last,           \* history: what the last function called found and did
    atStart,        \* history: the files when the current run started
    first,          \* history: the files when the first auto_fix run started
    ends            \* history: the results of the latest auto_fix runs that
                    \* ran to their summary one right after the other (at most 2)

vars == <<projectExists, pbx, pbxBackup, pbxBackup2, plist, plistBackup, derived,
          pc, status, script, changes_made, ret, runs, stages, io, last, atStart,
          first, ends>>

Snapshot ==
    [pbx |-> pbx, pbxBackup |-> pbxBackup, pbxBackup2 |-> pbxBackup2,
     plist |-> plist, plistBackup |-> plistBackup, derived |-> derived]

NoLast ==
    [op |-> "none", ran |-> FALSE, pre |-> <<>>, prePlist |-> NoPlist,
     matches |-> 0, reported |-> 0, ret |-> FALSE, wrote |-> FALSE]

InitCommon ==
    /\ pbxBackup = NoText
    /\ pbxBackup2 = NoText
    /\ plistBackup = NoPlist
    /\ pc = "idle"
    /\ status = "none"
    /\ script = "none"
    /\ changes_made = FALSE
    /\ ret = FALSE
    /\ runs = 0
    /\ stages = <<>>
    /\ io = <<>>
    /\ last = NoLast
    /\ atStart = Snapshot
    /\ first = [taken |-> FALSE, pbx |-> NoText, plist |-> NoPlist]
    /\ ends = <<>>

\* every modelled descriptor, with a property list that lacks one required key
InitDescriptors ==
    /\ projectExists = TRUE
    /\ pbx \in {TextFile(t) : t \in Descriptors}
    /\ plist = PlistFile("xml", [GoodDict EXCEPT !["CFBundleDisplayName"] = Missing])
    /\ derived = [exists |-> TRUE, dirs |-> {<<"BeaconAttendance-", "bmhxyz">>}]

\* every modelled property list and cache directory, a project that may be
\* absent, a descriptor that may be absent (it lies inside the project)
InitEnvironment ==
    /\ projectExists \in BOOLEAN
    /\ pbx \in IF projectExists
               THEN { NoText,
                      TextFile(<<"GENERATE_", "INFOPLIST_FILE", "SP", "=", "SP", "YES", ";", "NL",
                                 "HEX1", "SP", "/*", "SP", "Info.plist", "SP", "*/", "SP", "in",
                                 "SP", "Resources", "SP", "*/", ",", "NL">>) }
               ELSE {NoText}
    /\ plist \in PlistFiles
    /\ derived \in DerivedDatas

Init == (InitDescriptors \/ InitEnvironment) /\ InitCommon

\* ------------------------------------------------------ auto_fix_xcode.main

\* main with the calls of the remover and of the reconciler swapped
MainStagesSwapped ==
    <<"fix_pbxproj", "remove_info_plist_from_copy_resources", "fix_info_plist", "clean_build">>

\* the calls of main after the check of PROJECT_PATH, in order
MainStages ==
    <<"fix_pbxproj", "fix_info_plist", "remove_info_plist_from_copy_resources", "clean_build">>

\* where main goes on after its k-th call returns
AfterStage(name) ==
    LET k == CHOOSE i \in 1 .. Len(MainStages) : MainStages[i] = name
    IN IF k < Len(MainStages) THEN MainStages[k + 1] ELSE "summary"

\* main without its check of PROJECT_PATH
ProjectCheckSkipped == TRUE

\* os.path.exists(PROJECT_PATH) of main
ProjectFound == projectExists

\* a run starts: the script is launched from the shell
StartRun(name) ==
    /\ pc = "idle"
    /\ runs < MaxRuns
    /\ runs' = runs + 1
    /\ script' = name
    /\ stages' = <<>>
    /\ atStart' = Snapshot
    /\ last' = NoLast
    /\ ret' = FALSE

\* an exception leaves the function and main: the traceback ends the run
Raise ==
    /\ pc' = "idle"
    /\ status' = "exception"
    /\ ends' = <<>>

\* main up to its first call: sys.exit(1) when the project is not there
StartMain ==
    /\ StartRun("auto_fix")
    /\ io' = <<"exists:project">>
    /\ changes_made' = FALSE
    /\ first' = IF first.taken THEN first
                ELSE [taken |-> TRUE, pbx |-> pbx, plist |-> plist]
    /\ IF ProjectFound
       THEN /\ pc' = MainStages[1]
            /\ status' = "running"
            /\ ends' = ends
       ELSE /\ pc' = "idle"
            /\ status' = "exit1"
            /\ ends' = <<>>
    /\ UNCHANGED <<projectExists, pbx, pbxBackup, pbxBackup2, plist, plistBackup, derived>>

\* a result of fix_pbxproj that follows the matches instead of the text
ChangedIfMatched(original_content, content) == RuleMatches(original_content) > 0

\* the result of fix_pbxproj: content != original_content
ContentChanged(original_content, content) == content # original_content

FixPbxproj ==
    /\ pc = "fix_pbxproj"
    /\ IF ~pbx.exists
       THEN /\ ret' = FALSE
            /\ io' = io \o <<"exists:pbxproj">>
            /\ last' = [NoLast EXCEPT !.op = "fix_pbxproj"]
            /\ UNCHANGED <<pbx, pbxBackup>>
       ELSE LET original_content == ReadText(pbx.text)
                content == ApplyRules(6, original_content)
                changed == ContentChanged(original_content, content)
            IN /\ pbxBackup' = BackupFile(pbx, pbxBackup)
               /\ pbx' = IF changed THEN TextFile(content) ELSE pbx
               /\ ret' = changed
               /\ io' = io \o <<"exists:pbxproj", "backup:pbxproj", "read:pbxproj">>
                           \o (IF changed THEN <<"write:pbxproj">> ELSE <<>>)
               /\ last' = [NoLast EXCEPT !.op = "fix_pbxproj", !.ran = TRUE,
                                          !.pre = pbx.text,
                                          !.matches = RuleMatches(original_content),
                                          !.ret = changed, !.wrote = changed]
    /\ changes_made' = (changes_made \/ ret')
    /\ stages' = Append(stages, "fix_pbxproj")
    /\ pc' = AfterStage("fix_pbxproj")
    /\ UNCHANGED <<projectExists, pbxBackup2, plist, plistBackup, derived, status, script,
                   runs, atStart, first, ends>>

FixInfoPlist ==
    /\ pc = "fix_info_plist"
    /\ IF ~plist.exists
       THEN /\ ret' = FALSE
            /\ io' = io \o <<"exists:plist">>
            /\ last' = [NoLast EXCEPT !.op = "fix_info_plist"]
            /\ UNCHANGED <<plist, plistBackup>>
       ELSE IF ~plist.valid
       THEN \* plistlib.load raises; except Exception returns False
            /\ ret' = FALSE
            /\ io' = io \o <<"exists:plist", "read:plist">>
            /\ last' = [NoLast EXCEPT !.op = "fix_info_plist", !.prePlist = plist]
            /\ UNCHANGED <<plist, plistBackup>>
       ELSE LET modified == Modified(plist.dict)
            IN /\ plistBackup' = IF modified THEN BackupFile(plist, plistBackup)
                                 ELSE plistBackup
               \* plistlib.dump writes XML whatever the format read
               /\ plist' = IF modified THEN PlistFile("xml", Reconciled(plist.dict))
                           ELSE plist
               /\ ret' = modified
               /\ io' = io \o <<"exists:plist", "read:plist">>
                           \o (IF modified THEN <<"backup:plist", "write:plist">> ELSE <<>>)
               /\ last' = [NoLast EXCEPT !.op = "fix_info_plist", !.ran = TRUE,
                                          !.prePlist = plist,
                                          !.ret = modified, !.wrote = modified]
    /\ changes_made' = (changes_made \/ ret')
    /\ stages' = Append(stages, "fix_info_plist")
    /\ pc' = AfterStage("fix_info_plist")
    /\ UNCHANGED <<projectExists, pbx, pbxBackup, pbxBackup2, derived, status, script,
                   runs, atStart, first, ends>>

RemoveInfoPlist ==
    /\ pc = "remove_info_plist_from_copy_resources"
    /\ stages' = Append(stages, "remove_info_plist_from_copy_resources")
    /\ IF ~pbx.exists
       THEN \* open() raises FileNotFoundError and nothing catches it
            /\ Raise
            /\ io' = io \o <<"open-failed:pbxproj">>
            /\ last' = [NoLast EXCEPT !.op = "remove_info_plist_from_copy_resources"]
            /\ UNCHANGED <<pbx, ret, changes_made>>
       ELSE LET content == ReadText(pbx.text)
                matches == FindAll(content)
                found == matches # <<>>
            IN /\ pbx' = IF found THEN TextFile(RemoveEach(content, matches)) ELSE pbx
               /\ ret' = found
               /\ changes_made' = (changes_made \/ found)
               /\ io' = io \o <<"read:pbxproj">>
                           \o (IF found THEN <<"write:pbxproj">> ELSE <<>>)
               /\ last' = [NoLast EXCEPT !.op = "remove_info_plist_from_copy_resources",
                                          !.ran = TRUE, !.pre = pbx.text,
                                          !.matches = Len(matches),
                                          !.reported = Len(matches),
                                          !.ret = found, !.wrote = found]
               /\ pc' = AfterStage("remove_info_plist_from_copy_resources")
               /\ UNCHANGED <<status, ends>>
    /\ UNCHANGED <<projectExists, pbxBackup, pbxBackup2, plist, plistBackup, derived,
                   script, runs, atStart, first>>

CleanBuild ==
    /\ pc = "clean_build"
    /\ stages' = Append(stages, "clean_build")
    /\ last' = [NoLast EXCEPT !.op = "clean_build", !.ran = derived.exists]
    /\ IF ~derived.exists
       THEN \* os.listdir raises FileNotFoundError and nothing catches it
            /\ Raise
            /\ io' = io \o <<"listdir-failed:DerivedData">>
            /\ UNCHANGED derived
       ELSE LET beacon_dirs == {d \in derived.dirs : IsBeaconDir(d)}
            IN /\ derived' = [derived EXCEPT !.dirs = derived.dirs \ beacon_dirs]
               /\ io' = io \o <<"listdir:DerivedData">>
                           \o (IF beacon_dirs # {} THEN <<"rm:DerivedData">> ELSE <<>>)
               /\ pc' = AfterStage("clean_build")
               /\ UNCHANGED <<status, ends>>
    /\ UNCHANGED <<projectExists, pbx, pbxBackup, pbxBackup2, plist, plistBackup,
                   script, changes_made, ret, runs, atStart, first>>

\* the summary main prints; the script ends with status 0
Summary ==
    /\ pc = "summary"
    /\ pc' = "idle"
    /\ status' = "ok"
    /\ ends' = (IF ends = <<>> THEN <<>> ELSE <<ends[Len(ends)]>>)
               \o <<[pbx |-> pbx, plist |-> plist, changes_made |-> changes_made]>>
    /\ UNCHANGED <<projectExists, pbx, pbxBackup, pbxBackup2, plist, plistBackup, derived,
                   script, changes_made, ret, runs, stages, io, last, atStart, first>>

\* --------------------------------------------- fix_infoplist_duplicate.main

\* main up to its first call
StartDuplicateFix ==
    /\ StartRun("duplicate_fix")
    /\ io' = <<>>
    /\ pc' = "fix_project_file"
    /\ status' = "running"
    /\ ends' = <<>>
    /\ UNCHANGED <<projectExists, pbx, pbxBackup, pbxBackup2, plist, plistBackup, derived,
                   changes_made, first>>

FixProjectFile ==
    /\ pc = "fix_project_file"
    /\ stages' = Append(stages, "fix_project_file")
    /\ IF ~pbx.exists
       THEN /\ ret' = FALSE
            /\ io' = io \o <<"exists:pbxproj">>
            /\ last' = [NoLast EXCEPT !.op = "fix_project_file"]
            /\ pc' = "duplicate_summary"
            /\ UNCHANGED <<pbx, pbxBackup2>>
       ELSE LET content == ReadText(pbx.text)
                lines == SplitLines(content)
                new_lines == KeptLines(lines)
                removed_count == Len(lines) - Len(new_lines)
            IN /\ pbxBackup2' = Copy2(pbx, pbxBackup2)
               /\ pbx' = TextFile(JoinLines(new_lines))
               /\ ret' = TRUE
               /\ io' = io \o <<"exists:pbxproj", "backup2:pbxproj", "read:pbxproj",
                                "write:pbxproj">>
               /\ last' = [NoLast EXCEPT !.op = "fix_project_file", !.ran = TRUE,
                                          !.pre = pbx.text, !.matches = removed_count,
                                          !.reported = removed_count,
                                          !.ret = TRUE, !.wrote = TRUE]
               /\ pc' = "verify_info_plist"
    /\ UNCHANGED <<projectExists, pbxBackup, plist, plistBackup, derived, status, script,
                   changes_made, runs, atStart, first, ends>>

\* 'INFOPLIST_FILE = BeaconAttendanceApp/Resources/Info.plist;' in content
PathIsSet(content) ==
    LET wanted == <<"INFOPLIST_FILE", "SP", "=", "SP",
                    "BeaconAttendanceApp/Resources/Info.plist", ";">>
    IN \E i \in 1 .. Len(content) : OccursAt(content, wanted, i)

\* verify_info_plist only prints; ret records whether it printed that the
\* path is set and the file is there
VerifyInfoPlist ==
    /\ pc = "verify_info_plist"
    /\ stages' = Append(stages, "verify_info_plist")
    /\ ret' = (PathIsSet(ReadText(pbx.text)) /\ plist.exists)
    /\ io' = io \o <<"read:pbxproj">>
                \o (IF PathIsSet(ReadText(pbx.text)) THEN <<"exists:plist">> ELSE <<>>)
    /\ last' = [NoLast EXCEPT !.op = "verify_info_plist", !.ran = TRUE, !.pre = pbx.text]
    /\ pc' = "clean_derived_data"
    /\ UNCHANGED <<projectExists, pbx, pbxBackup, pbxBackup2, plist, plistBackup, derived,
                   status, script, changes_made, runs, atStart, first, ends>>

\* Path.glob yields nothing when DerivedData is absent
CleanDerivedData ==
    /\ pc = "clean_derived_data"
    /\ stages' = Append(stages, "clean_derived_data")
    /\ LET items == {d \in derived.dirs : IsBeaconDir(d)}
       IN /\ derived' = [derived EXCEPT !.dirs = derived.dirs \ items]
          /\ io' = io \o <<"glob:DerivedData">>
                      \o (IF items # {} THEN <<"rm:DerivedData">> ELSE <<>>)
    /\ last' = [NoLast EXCEPT !.op = "clean_derived_data", !.ran = TRUE]
    /\ pc' = "duplicate_summary"
    /\ UNCHANGED <<projectExists, pbx, pbxBackup, pbxBackup2, plist, plistBackup,
                   status, script, changes_made, ret, runs, atStart, first, ends>>

\* the closing messages of main; the script ends with status 0
DuplicateSummary ==
    /\ pc = "duplicate_summary"
    /\ pc' = "idle"
    /\ status' = "ok"
    /\ UNCHANGED <<projectExists, pbx, pbxBackup, pbxBackup2, plist, plistBackup, derived,
                   script, changes_made, ret, runs, stages, io, last, atStart, first, ends>>

\* ------------------------------------------------------------ specification

Next ==
    \/ StartMain
    \/ FixPbxproj
    \/ FixInfoPlist
    \/ RemoveInfoPlist
    \/ CleanBuild
    \/ Summary
    \/ StartDuplicateFix
    \/ FixProjectFile
    \/ VerifyInfoPlist
    \/ CleanDerivedData
    \/ DuplicateSummary

Spec == Init /\ [][Next]_vars

\* ------------------------------------------------------------------ claims

\* helpers of the properties below
IsPrefix(a, b) == Len(a) <= Len(b) /\ SubSeq(b, 1, Len(a)) = a
Occurrences(seq, x) == Cardinality({i \in 1 .. Len(seq) : seq[i] = x})
Before(seq, i, x) == Cardinality({j \in 1 .. (i - 1) : seq[j] = x})
\* the text s without the entries one scan of the entry pattern finds
RECURSIVE WithoutEntriesFrom(_, _)
WithoutEntriesFrom(s, i) ==
    IF i > Len(s) THEN <<>>
    ELSE LET e == EntryMatchEnd(s, i)
         IN IF e > 0 THEN WithoutEntriesFrom(s, e)
            ELSE <<s[i]>> \o WithoutEntriesFrom(s, i + 1)
\* an auto_fix run has just ended
AutoFixEnded == script = "auto_fix" /\ pc = "idle"
TextOps == {"fix_pbxproj", "remove_info_plist_from_copy_resources", "fix_project_file"}

\* C1 (as claimed): when two runs of the full session follow one another, the
\* second leaves project.pbxproj and Info.plist as the first left them and
\* ends with changes_made false.
C1_SecondRunChangesNothing ==
    Len(ends) = 2 =>
        /\ ends[2].pbx = ends[1].pbx
        /\ ends[2].plist = ends[1].plist
        /\ ends[2].changes_made = FALSE

\* C2 (as claimed): whatever script runs, a backup file that exists is left
\* as it is by every later step.
C2_BackupNeverOverwritten ==
    [][ /\ (pbxBackup.exists => pbxBackup' = pbxBackup)
        /\ (pbxBackup2.exists => pbxBackup2' = pbxBackup2)
        /\ (plistBackup.exists => plistBackup' = plistBackup) ]_vars

\* C3 (as claimed): after a session run that started with no backups, the
\* descriptor and the metadata document each have a backup, holding what the
\* file held before the first session run.
C3_EveryFileBackedUpOnce ==
    (AutoFixEnded /\ status = "ok") =>
        /\ pbxBackup.exists /\ pbxBackup = first.pbx
        /\ plistBackup.exists /\ plistBackup = first.plist

\* C3 (amended): after any session runs that started with no backups,
\* project.pbxproj.backup holds what the descriptor held before the first
\* session run (no backup when there was no descriptor); Info.plist.backup
\* exists exactly when the first session run found a required key to update
\* in a decodable Info.plist, and then holds what that file held before the
\* first session run.  A session that stops at the missing project makes no
\* backup.
C3_BackupOnceAmended ==
    (first.taken /\ pc = "idle") =>
        IF projectExists
        THEN /\ pbxBackup = first.pbx
             /\ plistBackup = IF first.plist.exists /\ first.plist.valid
                                 /\ Modified(first.plist.dict)
                              THEN first.plist ELSE NoPlist
        ELSE pbxBackup = NoText /\ plistBackup = NoPlist

\* C3 witness: two session runs have ended, both files have a backup and the
\* descriptor no longer holds what its backup holds.
C3_Witness ==
    /\ AutoFixEnded /\ status = "ok" /\ Len(ends) = 2
    /\ pbxBackup.exists /\ pbxBackup # pbx
    /\ plistBackup.exists /\ plistBackup # plist

\* C4 (as claimed): a descriptor-patching function whose patterns match
\* nothing leaves the file as it was, does not write it and returns false.
C4_ZeroMatchNoOp ==
    (last.ran /\ last.op \in TextOps /\ last.matches = 0) =>
        /\ pbx.text = last.pre
        /\ ~last.wrote
        /\ ~last.ret

\* C5 (as claimed): after fix_info_plist on a decodable Info.plist every
\* required key holds exactly the required value (same type, same value),
\* every other key holds what it held, and the function returns true and
\* writes the file exactly when a required key did not already do so.
C5_ReconcilerTypeExact ==
    (last.ran /\ last.op = "fix_info_plist") =>
        /\ \A k \in RequiredNames : plist.dict[k] = required_keys[k]
        /\ \A k \in KeyNames \ RequiredNames : plist.dict[k] = last.prePlist.dict[k]
        /\ last.ret = (\E k \in RequiredNames : last.prePlist.dict[k] # required_keys[k])
        /\ last.wrote = last.ret

\* C6 (as claimed): a session ends either at its summary or, when the project
\* path is absent, with exit status 1; no exception ends it.
C6_NoExceptionEscapes ==
    AutoFixEnded => (status = "ok" \/ (status = "exit1" /\ ~projectExists))

\* C7 (as claimed): fix_pbxproj returns true exactly when one of its rules
\* matched at least once.
C7_ChangedFollowsMatches ==
    (last.ran /\ last.op = "fix_pbxproj") => (last.ret = (last.matches > 0))

\* C7 (amended): fix_pbxproj returns true, and writes the file, exactly when
\* the text after the six rules differs from the text it read; rules that
\* match nothing leave the result false, and so do matches that are replaced
\* by the text they matched.
C7_ChangedFollowsText ==
    (last.ran /\ last.op = "fix_pbxproj") =>
        /\ last.ret = (ReadText(pbx.text) # ReadText(last.pre))
        /\ last.matches = 0 => ~last.ret
        /\ ~last.ret => pbx.text = last.pre

\* C7 witness: fix_pbxproj has returned false although a rule matched.
C7_Witness ==
    last.ran /\ last.op = "fix_pbxproj" /\ last.matches > 0 /\ ~last.ret

\* C8 (as claimed): remove_info_plist_from_copy_resources leaves no matching
\* entry, reports as many entries as the descriptor held, changes nothing but
\* the entries and returns true exactly when there was one.
C8_GlobalRemoval ==
    (last.ran /\ last.op = "remove_info_plist_from_copy_resources") =>
        LET before == ReadText(last.pre)
            n == Len(FindAll(before))
        IN /\ FindAll(ReadText(pbx.text)) = <<>>
           /\ last.reported = n
           /\ last.ret = (n > 0)
           /\ pbx.text = IF n > 0 THEN WithoutEntriesFrom(before, 1) ELSE last.pre

C10_FailFast ==
    (script = "auto_fix" /\ ~projectExists) =>
        /\ pc = "idle"
        /\ status = "exit1"
        /\ stages = <<>>
        /\ io = <<"exists:project">>
        /\ Snapshot = atStart
        /\ ~pbxBackup.exists /\ ~plistBackup.exists

\* C10 witness: a session has ended with exit status 1 although Info.plist
\* lacks a required value and the cache holds a directory of the project.
C10_Witness ==
    /\ AutoFixEnded /\ status = "exit1"
    /\ plist.exists /\ plist.valid /\ Modified(plist.dict)
    /\ \E d \in derived.dirs : IsBeaconDir(d)

====
